---------------------------- MODULE Spec2Model ----------------------------
(***************************************************************************)
(* Model of tools/ape_submodule_workflow.py: a command line tool that      *)
(* scans the submodules registered in .gitmodules, and creates branches,   *)
(* pushes, opens merge requests or stages the parent's references for the  *)
(* dirty ones.                                                             *)
(*                                                                         *)
(* Two specifications share the variables:                                 *)
(*   Spec    one run of main(): Main, then the handler of the subcommand,  *)
(*           one loop iteration per step.                                  *)
(*   SpecEB  successive calls of ensure_branch() on one repository whose   *)
(*           refs (branches with their commits, tags) are modelled.        *)
(* git and the review tools are the environment: a read-only query is a    *)
(* function of the repository state, a command that changes something or   *)
(* talks to a remote may in addition fail for reasons of its own.          *)
(***************************************************************************)
EXTENDS Integers, Sequences, FiniteSets, TLC

VARIABLES
    manifestExists, \* (root / ".gitmodules").exists()
    manifest,       \* the sections of .gitmodules, in file order
    args,           \* the parsed command line (argparse.Namespace)
    repos,          \* path -> state of the git repository at that path
    tools,          \* shutil.which: [glab |-> BOOLEAN, gh |-> BOOLEAN]
    pc,             \* position of the run
    submodules,     \* main: the registry (load_submodules)
    targets,        \* main: resolve_targets' result
    modules,        \* handler: changed_submodules(targets)
    idx,            \* handler: position of the for loop over modules
    log,            \* every external command executed so far, in order
    out,            \* every line printed so far (stdout and stderr), in order
    exitCode,       \* main's return value, None while running
    requests,       \* handle_mr: the create_merge_request calls that read the origin URL
    calls           \* SpecEB: the ensure_branch calls made so far

vars == <<manifestExists, manifest, args, repos, tools, pc, submodules, targets,
          modules, idx, log, out, exitCode, requests, calls>>

-----------------------------------------------------------------------------
(* Bounds *)

\* longest explicit --modules list
MaxModulesArg == 2
\* commits a ref can point at (1..NumCommits)
NumCommits == 2

-----------------------------------------------------------------------------
(* Values *)

None == "None"
\* the submodule names the manifests are drawn from
Names == {"lib", "app"}
\* a name no manifest declares
UnknownName == "ghost"
\* configparser fallback=None: the section has no path option
NoPath == "<no path option>"
PathOf(name) == "vendor/" \o name
Root == "."

Commits == 1..NumCommits
RefNames == {"main", "feature"}
\* what rev-parse --abbrev-ref HEAD prints for a detached HEAD
DetachedHead == "HEAD"

Submodule(name, path) == [name |-> name, path |-> path]

\* one external command: run_git's cmd (tool "git") or create_merge_request's cmd
Cmd(tool, dir, op, arg, rc) == [tool |-> tool, dir |-> dir, op |-> op, arg |-> arg, rc |-> rc]
\* one printed line: what it reports, the submodule it names, its text
Line(kind, name, text) == [kind |-> kind, name |-> name, text |-> text]

RECURSIVE SeqsUpTo(_, _)
SeqsUpTo(S, n) ==
    IF n = 0 THEN {<<>>}
    ELSE LET shorter == SeqsUpTo(S, n - 1)
         IN shorter \cup {Append(s, x) : s \in {t \in shorter : Len(t) = n - 1}, x \in S}

Range(s) == {s[i] : i \in DOMAIN s}

-----------------------------------------------------------------------------
(* The environment: a git repository                                        *)
(*   kind      "clean" | "dirty" | "norepo" (the path is not a repository)  *)
(*   head      the checked-out branch, or DetachedHead                      *)
(*   commit    the commit HEAD points at                                    *)
(*   branches  refs/heads: branch name -> commit                            *)
(*   tags      refs/tags: names that resolve but are not branches           *)

Repo(kind, head, commit, branches, tags) ==
    [kind |-> kind, head |-> head, commit |-> commit, branches |-> branches, tags |-> tags]

\* the commit every tag of the model points at
TagCommit == CHOOSE c \in Commits : \A d \in Commits : c <= d
\* exit status of a git command that fails
GitFail == 128
\* run_git raises WorkflowError(stderr or stdout): the diagnostic of the command
Diag(op, arg) == "fatal: git " \o op \o " " \o arg

\* stdout of git status --porcelain
StatusStdout(r) ==
    IF r.kind = "dirty" THEN <<" M src/a.py", "?? notes.txt">> ELSE <<>>

\* line.strip() is empty
IsBlank(line) == line \in {"", " ", "  "}

Result(rc, stdout, repo) == [rc |-> rc, stdout |-> stdout, repo |-> repo]

\* git status --porcelain
git_status(r) ==
    IF r.kind = "norepo" THEN Result(GitFail, <<>>, r) ELSE Result(0, StatusStdout(r), r)

\* git rev-parse --abbrev-ref HEAD
git_rev_parse_head(r) ==
    IF r.kind = "norepo" THEN Result(GitFail, <<>>, r) ELSE Result(0, <<r.head>>, r)

\* git rev-parse --verify <name>: any ref of that name resolves
git_rev_parse_verify(r, name) ==
    IF r.kind # "norepo" /\ (name \in DOMAIN r.branches \/ name \in r.tags)
    THEN Result(0, <<name>>, r) ELSE Result(GitFail, <<>>, r)

\* git checkout <name>: a branch is checked out, a tag detaches HEAD, a name
\* only the remote has becomes a tracking branch at the remote's commit
git_checkout(r, name, fail, remote) ==
    IF r.kind = "norepo" \/ fail THEN Result(GitFail, <<>>, r)
    ELSE IF name \in DOMAIN r.branches
         THEN Result(0, <<>>, [r EXCEPT !.head = name, !.commit = r.branches[name]])
    ELSE IF name \in r.tags
         THEN Result(0, <<>>, [r EXCEPT !.head = DetachedHead, !.commit = TagCommit])
    ELSE IF remote.has
         THEN Result(0, <<>>, [r EXCEPT !.head = name, !.commit = remote.commit,
                                        !.branches = (name :> remote.commit) @@ r.branches])
    ELSE Result(GitFail, <<>>, r)

\* git checkout -b <name> (force = FALSE) or -B <name> (force = TRUE)
git_checkout_new(r, name, force, fail) ==
    IF r.kind = "norepo" \/ fail \/ (~force /\ name \in DOMAIN r.branches)
    THEN Result(GitFail, <<>>, r)
    ELSE Result(0, <<>>, [r EXCEPT !.head = name,
                                   !.branches = (name :> r.commit) @@ r.branches])

\* git fetch <remote> <base>: only remote-tracking refs change
git_fetch(r, fail) ==
    IF r.kind = "norepo" \/ fail THEN Result(GitFail, <<>>, r) ELSE Result(0, <<>>, r)

\* git pull <remote> <base>: the checked-out branch moves to the remote's commit
git_pull(r, fail, to) ==
    IF r.kind = "norepo" \/ fail \/ r.head = DetachedHead THEN Result(GitFail, <<>>, r)
    ELSE Result(0, <<>>, [r EXCEPT !.commit = to, !.branches = (r.head :> to) @@ r.branches])

\* git push [-u] <remote> <branch>: the branch must exist locally
git_push(r, branch, fail) ==
    IF r.kind = "norepo" \/ fail \/ branch \notin DOMAIN r.branches
    THEN Result(GitFail, <<>>, r) ELSE Result(0, <<>>, r)

\* git remote get-url origin
git_remote_get_url(r, url) ==
    IF r.kind = "norepo" \/ url = None THEN Result(GitFail, <<>>, r) ELSE Result(0, <<url>>, r)

-----------------------------------------------------------------------------
(* The program *)

\* what a call leaves behind: the repository, the commands it ran, whether it
\* raised WorkflowError (msg is the exception's text) and its return value
Outcome(repo, cmds, raised, msg, ret) ==
    [repo |-> repo, cmds |-> cmds, raised |-> raised, msg |-> msg, ret |-> ret]

\* run_git ignoring check: it never raises
run_git_unchecked(dir, op, arg, res, check) ==
    [cmd |-> Cmd("git", dir, op, arg, res.rc), raised |-> FALSE, msg |-> "", res |-> res]

\* run_git: the command is logged; check /\ returncode # 0 raises
run_git(dir, op, arg, res, check) ==
    [cmd |-> Cmd("git", dir, op, arg, res.rc),
     raised |-> check /\ res.rc # 0,
     msg |-> IF check /\ res.rc # 0 THEN Diag(op, arg) ELSE "",
     res |-> res]

git_status_lines(r) ==
    LET result == git_status(r)
    IN IF result.rc # 0 THEN <<>>
       ELSE SelectSeq(result.stdout, LAMBDA line : ~IsBlank(line))

\* get_current_branch without the test for a detached HEAD
get_current_branch_raw(r) ==
    LET result == git_rev_parse_head(r)
    IN IF result.rc # 0 THEN None ELSE result.stdout[1]

get_current_branch(r) ==
    LET result == git_rev_parse_head(r)
    IN IF result.rc # 0 THEN None
       ELSE IF result.stdout[1] = DetachedHead THEN None ELSE result.stdout[1]

\* the outcomes the environment gives to the commands of one ensure_branch call
\* fail: the commands that fail, among "checkout", "fetch", "checkout base",
\* "pull" and "create"; remote: whether the remote has the base branch, and
\* the commit it is at
Remotes == [has : BOOLEAN, commit : Commits]
Env(fail, remote) == [fail |-> fail, remote |-> remote]

ensure_branch(r, path, branch, base, remote, force, env) ==
    LET c1 == <<Cmd("git", path, "rev-parse --abbrev-ref HEAD", "", git_rev_parse_head(r).rc)>>
        current == get_current_branch(r)
    IN
    IF current = branch THEN Outcome(r, c1, FALSE, "", branch)
    ELSE
    LET existing == git_rev_parse_verify(r, branch)
        c2 == Append(c1, Cmd("git", path, "rev-parse --verify", branch, existing.rc))
    IN
    IF existing.rc = 0
    THEN LET co == run_git(path, "checkout", branch,
                           git_checkout(r, branch, "checkout" \in env.fail, env.remote), TRUE)
         IN Outcome(co.res.repo, Append(c2, co.cmd), co.raised, co.msg,
                    IF co.raised THEN None ELSE branch)
    ELSE
    LET status == git_status_lines(r)
        c3 == Append(c2, Cmd("git", path, "status --porcelain", "", git_status(r).rc))
        sync == base # None /\ status = <<>>
        fetch == run_git(path, "fetch", remote \o " " \o base, git_fetch(r, "fetch" \in env.fail), FALSE)
        cobase == run_git(path, "checkout", base,
                          git_checkout(fetch.res.repo, base, "checkout base" \in env.fail,
                                       env.remote), TRUE)
        pull == run_git(path, "pull", remote \o " " \o base,
                        git_pull(cobase.res.repo, "pull" \in env.fail, env.remote.commit), FALSE)
        r4 == IF sync THEN pull.res.repo ELSE r
        c4 == IF sync THEN c3 \o <<fetch.cmd, cobase.cmd, pull.cmd>> ELSE c3
        checkout_args == IF force THEN "checkout -B" ELSE "checkout -b"
        create == run_git(path, checkout_args, branch,
                          git_checkout_new(r4, branch, force, "create" \in env.fail), TRUE)
    IN
    IF sync /\ cobase.raised
    THEN Outcome(cobase.res.repo, c3 \o <<fetch.cmd, cobase.cmd>>, TRUE, cobase.msg, None)
    ELSE Outcome(create.res.repo, Append(c4, create.cmd), create.raised, create.msg,
                 IF create.raised THEN None ELSE branch)

\* push_branch swallowing a failed push
push_branch_unchecked(r, path, branch, remote, set_upstream, fail) ==
    Outcome(r, <<Cmd("git", path, IF set_upstream THEN "push -u" ELSE "push",
                     remote \o " " \o branch, git_push(r, branch, fail).rc)>>,
            FALSE, "", None)

push_branch(r, path, branch, remote, set_upstream, fail) ==
    LET push == run_git(path, IF set_upstream THEN "push -u" ELSE "push",
                        remote \o " " \o branch, git_push(r, branch, fail), TRUE)
    IN Outcome(r, <<push.cmd>>, push.raised, push.msg, None)

\* a remote URL, by what detect_mr_tool looks at after lower():
\* "gitlab" in it, "github" in it, it ends with ".git"
Urls == [gitlab : BOOLEAN, github : BOOLEAN, dotgit : BOOLEAN]

\* detect_mr_tool without the host tests: glab whenever it is installed
detect_mr_tool_ignoring_host(remote_url, which) ==
    IF which.glab THEN "glab"
    ELSE IF which.gh THEN "gh"
    ELSE None

detect_mr_tool(remote_url, which) ==
    IF remote_url.gitlab /\ which.glab THEN "glab"
    ELSE IF (remote_url.github \/ remote_url.dotgit) /\ which.gh THEN "gh"
    ELSE IF which.glab THEN "glab"
    ELSE IF which.gh THEN "gh"
    ELSE None

\* the origin remote of a repository: whether it is configured, and its URL
Origins ==
    {[present |-> TRUE, url |-> u] : u \in Urls}
    \cup {[present |-> FALSE, url |-> [gitlab |-> FALSE, github |-> FALSE, dotgit |-> FALSE]]}

\* fail is the outcome of the review tool's command
create_merge_request(r, path, branch, target, title, draft, origin, which, fail) ==
    LET geturl == run_git(path, "remote get-url", "origin",
                          git_remote_get_url(r, IF origin.present THEN "url" ELSE None), TRUE)
        tool == detect_mr_tool(origin.url, which)
        suggestion == <<Line("manual", "", "No supported CLI (glab or gh) detected."),
                        Line("title", "", IF title # None THEN title ELSE branch)>>
        cmd == Cmd(tool, path, IF tool = "glab" THEN "mr create" ELSE "pr create",
                   branch \o " -> " \o target, IF fail THEN 1 ELSE 0)
    IN
    IF geturl.raised
    THEN [cmds |-> <<geturl.cmd>>, raised |-> TRUE, msg |-> geturl.msg, lines |-> <<>>,
          tool |-> None]
    ELSE IF tool = None
    THEN [cmds |-> <<geturl.cmd>>, raised |-> FALSE, msg |-> "", lines |-> suggestion,
          tool |-> None]
    ELSE [cmds |-> <<geturl.cmd, cmd>>, raised |-> fail,
          msg |-> IF fail THEN "Merge request command failed with exit code 1." ELSE "",
          lines |-> <<>>, tool |-> tool]

\* .gitmodules: a section is its header <<keyword, name>> ([submodule "lib"]) and
\* its path option
Section(name, path) == [header |-> <<"submodule", name>>, path |-> path]
\* section.split(" ", 1)[-1].strip('"')
SectionName(header) == header[Len(header)]

\* load_submodules without "if not path: continue"
load_submodules_keep_pathless(m) ==
    [i \in 1..Len(m) |-> Submodule(SectionName(m[i].header), PathOf(SectionName(m[i].header)))]

load_submodules(m) ==
    LET kept == SelectSeq(m, LAMBDA section : section.path # NoPath /\ section.path # "")
    IN [i \in 1..Len(kept) |-> Submodule(SectionName(kept[i].header), kept[i].path)]

\* one git status per submodule, in order
StatusCmds(mods, rs) ==
    [i \in 1..Len(mods) |->
        Cmd("git", mods[i].path, "status --porcelain", "", git_status(rs[mods[i].path]).rc)]

\* changed_submodules appending every submodule, whatever its status lines
changed_submodules_all(mods, rs) == mods

changed_submodules(mods, rs) ==
    SelectSeq(mods, LAMBDA submodule : git_status_lines(rs[submodule.path]) # <<>>)

\* resolve_targets dropping the unknown names instead of raising
resolve_targets_skip_unknown(subs, names) ==
    LET known == {subs[i].name : i \in DOMAIN subs}
        found == SelectSeq(names, LAMBDA name : name \in known)
    IN [raised |-> FALSE, msg |-> "", missing |-> <<>>,
        targets |-> IF names = <<>> THEN subs
                    ELSE [i \in 1..Len(found) |->
                             subs[CHOOSE j \in DOMAIN subs : subs[j].name = found[i]]]]

\* names: args.modules; argparse gives None without --modules and [] for a bare
\* --modules, both are "not names" and are <<>> here
resolve_targets(subs, names) ==
    LET known == {subs[i].name : i \in DOMAIN subs}
        \* a dict comprehension: the last entry of a name wins
        name_map == [n \in known |->
                        subs[CHOOSE i \in DOMAIN subs :
                                /\ subs[i].name = n
                                /\ \A j \in DOMAIN subs : subs[j].name = n => j <= i]]
        missing == SelectSeq(names, LAMBDA name : name \notin known)
    IN IF names = <<>> THEN [raised |-> FALSE, msg |-> "", missing |-> <<>>, targets |-> subs]
       ELSE IF missing # <<>>
       THEN [raised |-> TRUE, msg |-> "Unknown submodule(s)", missing |-> missing,
             targets |-> <<>>]
       ELSE [raised |-> FALSE, msg |-> "", missing |-> <<>>,
             targets |-> [i \in 1..Len(names) |-> name_map[names[i]]]]

-----------------------------------------------------------------------------
(* One run of main() *)

Paths == {PathOf(n) : n \in Names}

\* manifests: sections of distinct names, each with no path option, an empty
\* one or the path of its submodule
Manifests ==
    {m \in SeqsUpTo({Section(n, p) : n \in Names, p \in {NoPath, ""} \cup Paths},
                   Cardinality(Names)) :
        /\ \A i \in DOMAIN m : m[i].path \in {NoPath, "", PathOf(SectionName(m[i].header))}
        /\ \A i, j \in DOMAIN m : i # j => m[i].header # m[j].header}

BaseCommit == CHOOSE c \in Commits : \A d \in Commits : c <= d
NotARepo == Repo("norepo", DetachedHead, BaseCommit, <<>>, {})

\* the repositories of a run: not a repository, or clean or dirty, on main or
\* detached and, for the branch subcommand, with or without a feature branch
\* that may be the current one
RunRepos(command) ==
    {NotARepo} \cup
    {Repo(k, h, BaseCommit, [b \in bs |-> BaseCommit], {}) :
        k \in {"clean", "dirty"},
        h \in IF command \in {"status", "update-parent"} THEN {"main"}
              ELSE IF command = "branch" THEN RefNames \cup {DetachedHead}
              ELSE {"main", DetachedHead},
        bs \in IF command = "branch" THEN {{"main"}, RefNames} ELSE {{"main"}}}

Args(command, mods, include_clean, base, force, set_upstream, title, draft) ==
    [command |-> command, modules |-> mods, include_clean |-> include_clean,
     name |-> "feature", base |-> base, remote |-> "origin", force |-> force,
     set_upstream |-> set_upstream, target |-> "main", title |-> title, draft |-> draft]

ModuleLists == SeqsUpTo(Names \cup {UnknownName}, MaxModulesArg)

\* each subcommand with its own flags (argparse leaves the others at their defaults)
ArgSet ==
    {Args("status", ms, ic, None, FALSE, FALSE, None, FALSE) : ms \in ModuleLists, ic \in BOOLEAN}
    \cup {Args("branch", ms, FALSE, b, f, FALSE, None, FALSE) :
            ms \in ModuleLists, b \in {None, "main"}, f \in BOOLEAN}
    \cup {Args("push", ms, FALSE, None, FALSE, u, None, FALSE) : ms \in ModuleLists, u \in BOOLEAN}
    \cup {Args("mr", ms, FALSE, None, FALSE, FALSE, t, FALSE) :
            ms \in ModuleLists, t \in {None, "Add feature"}}
    \cup {Args("update-parent", ms, FALSE, None, FALSE, FALSE, None, FALSE) : ms \in ModuleLists}

Which == [glab : BOOLEAN, gh : BOOLEAN]

Init ==
    /\ manifestExists \in BOOLEAN
    /\ manifest \in IF manifestExists THEN Manifests ELSE {<<>>}
    /\ args \in ArgSet
    /\ repos \in [Paths -> RunRepos(args.command)]
    \* only the repositories the manifest names matter
    /\ \A p \in Paths :
          (\A i \in DOMAIN manifest : manifest[i].path # p) => repos[p] = NotARepo
    /\ \A p \in Paths : repos[p].head \in DOMAIN repos[p].branches \cup {DetachedHead}
    /\ tools \in IF args.command = "mr" THEN Which ELSE {[glab |-> FALSE, gh |-> FALSE]}
    /\ pc = "start"
    /\ submodules = <<>>
    /\ targets = <<>>
    /\ modules = <<>>
    /\ idx = 0
    /\ log = <<>>
    /\ out = <<>>
    /\ exitCode = -1
    /\ requests = <<>>
    /\ calls = <<>>

\* except WorkflowError: print "Error: ...", return 1
Fail(msg, name, cmds) ==
    /\ log' = log \o cmds
    /\ out' = Append(out, Line("error", name, msg))
    /\ exitCode' = 1
    /\ pc' = "done"

\* return 0, after printing lines
Finish(lines, cmds) ==
    /\ log' = log \o cmds
    /\ out' = out \o lines
    /\ exitCode' = 0
    /\ pc' = "done"

\* main up to the dispatch: ensure_repo, load_submodules, resolve_targets
Main ==
    /\ pc = "start"
    /\ IF ~manifestExists
       THEN /\ Fail("Expected to find a .gitmodules file", "", <<>>)
            /\ UNCHANGED <<submodules, targets>>
       ELSE /\ submodules' = load_submodules(manifest)
            /\ IF submodules' = <<>>
               THEN /\ Finish(<<Line("no submodules", "", "No submodules registered in .gitmodules.")>>,
                              <<>>)
                    /\ UNCHANGED targets
               ELSE LET resolved == resolve_targets(submodules', args.modules)
                    IN IF resolved.raised
                       THEN /\ Fail(resolved.msg, "", <<>>)
                            /\ UNCHANGED targets
                       ELSE /\ targets' = resolved.targets
                            /\ pc' = args.command
                            /\ UNCHANGED <<log, out, exitCode>>
    /\ UNCHANGED <<manifestExists, manifest, args, repos, tools, modules, idx, requests, calls>>

RECURSIVE Flatten(_)
Flatten(ss) == IF ss = <<>> THEN <<>> ELSE Head(ss) \o Flatten(Tail(ss))

\* the outcomes drawn for one ensure_branch call: only the commands the call
\* runs can fail
EnvsFor(r, branch, base) ==
    LET ops == IF get_current_branch(r) = branch THEN {}
               ELSE IF git_rev_parse_verify(r, branch).rc = 0 THEN {"checkout"}
               ELSE IF base # None /\ git_status_lines(r) = <<>>
                    THEN {"fetch", "checkout base", "pull", "create"}
               ELSE {"create"}
        remotes == IF "pull" \in ops THEN Remotes
                   ELSE {[has |-> FALSE, commit |-> BaseCommit]}
    IN {Env(fail, remote) : fail \in SUBSET ops, remote \in remotes}

\* the status scan every handler but status --include-clean starts with; when
\* nothing is dirty the handler prints and returns
Scan(nothing, loop) ==
    LET dirty == changed_submodules(targets, repos)
    IN /\ modules' = dirty
       /\ IF dirty = <<>>
          THEN /\ Finish(<<Line(nothing, "", "No dirty submodules detected")>>,
                         StatusCmds(targets, repos))
               /\ UNCHANGED idx
          ELSE /\ log' = log \o StatusCmds(targets, repos)
               /\ idx' = 1
               /\ pc' = loop
               /\ UNCHANGED <<out, exitCode>>

\* the end of one iteration of a handler's for loop
Continue(lines, cmds) ==
    IF idx = Len(modules)
    THEN Finish(lines, cmds) /\ UNCHANGED idx
    ELSE /\ log' = log \o cmds
         /\ out' = out \o lines
         /\ idx' = idx + 1
         /\ UNCHANGED <<pc, exitCode>>

handle_status ==
    /\ pc = "status"
    /\ LET scan == IF args.include_clean THEN <<>> ELSE StatusCmds(targets, repos)
           mods == IF args.include_clean THEN targets ELSE changed_submodules(targets, repos)
           report(module) ==
               LET lines == git_status_lines(repos[module.path])
               IN <<Line("status", module.name, module.path)>> \o
                  (IF lines # <<>>
                   THEN [i \in 1..Len(lines) |-> Line("change", module.name, lines[i])]
                   ELSE <<Line("clean", module.name, "clean")>>)
       IN /\ modules' = mods
          /\ IF mods = <<>>
             THEN Finish(<<Line("nothing to report", "", "No dirty submodules detected.")>>, scan)
             ELSE Finish(Flatten([i \in 1..Len(mods) |-> report(mods[i])]),
                         scan \o StatusCmds(mods, repos))
    /\ UNCHANGED <<manifestExists, manifest, args, repos, tools, submodules, targets, idx,
                   requests, calls>>

handle_branch ==
    /\ pc = "branch"
    /\ Scan("nothing to branch", "branch loop")
    /\ UNCHANGED <<manifestExists, manifest, args, repos, tools, submodules, targets,
                   requests, calls>>

\* one iteration of handle_branch's loop
handle_branch_module ==
    /\ pc = "branch loop"
    /\ LET module == modules[idx]
           r == repos[module.path]
       IN \E env \in EnvsFor(r, args.name, args.base) :
            LET done == ensure_branch(r, module.path, args.name, args.base, args.remote,
                                      args.force, env)
            IN /\ repos' = [repos EXCEPT ![module.path] = done.repo]
               /\ IF done.raised
                  THEN Fail(done.msg, module.name, done.cmds) /\ UNCHANGED idx
                  ELSE Continue(<<Line("checked out", module.name, done.ret)>>, done.cmds)
    /\ UNCHANGED <<manifestExists, manifest, args, tools, submodules, targets, modules,
                   requests, calls>>

handle_push ==
    /\ pc = "push"
    /\ Scan("nothing to push", "push loop")
    /\ UNCHANGED <<manifestExists, manifest, args, repos, tools, submodules, targets,
                   requests, calls>>

\* one iteration of handle_push's loop
handle_push_module ==
    /\ pc = "push loop"
    /\ LET module == modules[idx]
           r == repos[module.path]
           branch == get_current_branch(r)
           c1 == <<Cmd("git", module.path, "rev-parse --abbrev-ref HEAD", "",
                       git_rev_parse_head(r).rc)>>
       IN IF branch = None
          THEN Fail("is in a detached HEAD state; cannot push without a branch.",
                    module.name, c1) /\ UNCHANGED idx
          ELSE \E fail \in BOOLEAN :
                 LET done == push_branch(r, module.path, branch, args.remote,
                                         args.set_upstream, fail)
                 IN IF done.raised
                    THEN Fail(done.msg, "", c1 \o done.cmds) /\ UNCHANGED idx
                    ELSE Continue(<<Line("pushed", module.name, branch)>>, c1 \o done.cmds)
    /\ UNCHANGED <<manifestExists, manifest, args, repos, tools, submodules, targets, modules,
                   requests, calls>>

handle_mr ==
    /\ pc = "mr"
    /\ Scan("no merge requests created", "mr loop")
    /\ UNCHANGED <<manifestExists, manifest, args, repos, tools, submodules, targets,
                   requests, calls>>

\* one iteration of handle_mr's loop; the origin of the repository is drawn
\* here, where the run reads it
handle_mr_module ==
    /\ pc = "mr loop"
    /\ LET module == modules[idx]
           r == repos[module.path]
           branch == get_current_branch(r)
           c1 == <<Cmd("git", module.path, "rev-parse --abbrev-ref HEAD", "",
                       git_rev_parse_head(r).rc)>>
       IN IF branch = None
          THEN Fail("does not have an active branch; create one before opening an MR.",
                    module.name, c1) /\ UNCHANGED <<idx, requests>>
          ELSE \E origin \in Origins, fail \in BOOLEAN :
                 LET done == create_merge_request(r, module.path, branch, args.target,
                                                  args.title, args.draft, origin, tools, fail)
                 IN /\ requests' = Append(requests,
                                          [module |-> module, origin |-> origin,
                                           tool |-> done.tool, raised |-> done.raised])
                    /\ IF done.raised
                       THEN Fail(done.msg, "", c1 \o done.cmds) /\ UNCHANGED idx
                       ELSE Continue(done.lines \o <<Line("mr", module.name, branch)>>,
                                     c1 \o done.cmds)
    /\ UNCHANGED <<manifestExists, manifest, args, repos, tools, submodules, targets, modules,
                   calls>>

handle_update_parent ==
    /\ pc = "update-parent"
    /\ Scan("nothing to stage", "update-parent loop")
    /\ UNCHANGED <<manifestExists, manifest, args, repos, tools, submodules, targets,
                   requests, calls>>

\* one iteration of update_parent's loop; handle_update_parent prints its
\* lines once update_parent has returned
update_parent ==
    /\ pc = "update-parent loop"
    /\ LET module == modules[idx]
       IN \E fail \in BOOLEAN :
            LET add == run_git(Root, "add", module.path,
                               Result(IF fail THEN GitFail ELSE 0, <<>>, NotARepo), TRUE)
            IN IF add.raised
               THEN Fail(add.msg, "", <<add.cmd>>) /\ UNCHANGED idx
               ELSE Continue(IF idx = Len(modules)
                             THEN [i \in 1..Len(modules) |->
                                      Line("staged", modules[i].name, modules[i].path)]
                             ELSE <<>>,
                             <<add.cmd>>)
    /\ UNCHANGED <<manifestExists, manifest, args, repos, tools, submodules, targets, modules,
                   requests, calls>>

Next ==
    \/ Main
    \/ handle_status
    \/ handle_branch
    \/ handle_branch_module
    \/ handle_push
    \/ handle_push_module
    \/ handle_mr
    \/ handle_mr_module
    \/ handle_update_parent
    \/ update_parent

Spec == Init /\ [][Next]_vars

-----------------------------------------------------------------------------
(* Successive calls of ensure_branch on one repository *)

ThePath == PathOf("lib")

\* every repository over RefNames: any set of branches at any commits, any set
\* of tags, HEAD on a branch or detached at a commit
EBRepos ==
    {NotARepo} \cup
    UNION {
        {Repo(k, h, branches[h], branches, tags) : h \in DOMAIN branches}
        \cup {Repo(k, DetachedHead, c, branches, tags) : c \in Commits} :
        k \in {"clean", "dirty"},
        branches \in UNION {[bs -> Commits] : bs \in SUBSET RefNames},
        tags \in SUBSET RefNames}

InitEB ==
    /\ manifestExists = TRUE
    /\ manifest = <<Section("lib", ThePath)>>
    /\ args = Args("branch", <<>>, FALSE, None, FALSE, FALSE, None, FALSE)
    /\ \E r \in EBRepos : repos = [p \in Paths |-> IF p = ThePath THEN r ELSE NotARepo]
    /\ tools = [glab |-> FALSE, gh |-> FALSE]
    /\ pc = "ensure_branch"
    /\ submodules = <<>>
    /\ targets = <<>>
    /\ modules = <<>>
    /\ idx = 0
    /\ log = <<>>
    /\ out = <<>>
    /\ exitCode = -1
    /\ requests = <<>>
    /\ calls = <<>>

\* one call, of a first call and the call that immediately follows it; calls
\* keeps the arguments, the repository before the call and the outcome, and
\* log the commands of the last call
ensure_branch_call ==
    /\ pc = "ensure_branch"
    /\ Len(calls) < 2
    /\ \E branch \in RefNames, base \in {None, "main"}, force \in BOOLEAN :
         \E env \in EnvsFor(repos[ThePath], branch, base) :
            LET done == ensure_branch(repos[ThePath], ThePath, branch, base, "origin", force, env)
            IN /\ repos' = [repos EXCEPT ![ThePath] = done.repo]
               /\ log' = done.cmds
               /\ calls' = Append(calls, [branch |-> branch, base |-> base, force |-> force,
                                          fail |-> env.fail, pre |-> repos[ThePath],
                                          done |-> done])
    /\ UNCHANGED <<manifestExists, manifest, args, tools, pc, submodules, targets, modules,
                   idx, out, exitCode, requests>>

NextEB == ensure_branch_call

SpecEB == InitEB /\ [][NextEB]_vars

-----------------------------------------------------------------------------
(* Vocabulary of the properties, stated on the inputs and the observable   *)
(* trace (log, out, exitCode) rather than through the program's operators  *)

\* the names the registry holds: sections with a non-empty path
RegistryNames ==
    {manifest[i].header[2] : i \in {j \in DOMAIN manifest : manifest[j].path \in Paths}}
\* the paths of the registry's dirty repositories
IsDirty(path) == repos[path].kind = "dirty"
IsDetached(path) == repos[path].head = DetachedHead
HasUnknownName == \E i \in DOMAIN args.modules : args.modules[i] \notin RegistryNames
PerTarget == {"branch", "push", "mr", "update-parent"}
Loops == {"branch loop", "push loop", "mr loop", "update-parent loop"}
\* a handler has finished its status scan
Scanned == pc \in Loops \/ (pc = "done" /\ targets # <<>>)
\* the commands after the scan: those of the per-target operations
OpLog == IF Len(log) <= Len(targets) THEN <<>> ELSE SubSeq(log, Len(targets) + 1, Len(log))
CmdPath(cmd) == IF cmd.op = "add" THEN cmd.arg ELSE cmd.dir
IsPush(cmd) == cmd.op \in {"push", "push -u"}
Pushes == SelectSeq(log, IsPush)
LastLine == out[Len(out)]
ManifestPos(name) == CHOOSE i \in DOMAIN manifest : manifest[i].header[2] = name

(* C1 (as stated in the specification): whenever the --modules list holds a *)
(* name that is no registry entry, the run ends with exit code 1 and has   *)
(* executed no git and no review-tool command. The code returns 0 for an   *)
(* empty registry before it looks at the names.                            *)
C1_Original ==
    (manifestExists /\ HasUnknownName)
        => /\ log = <<>>
           /\ pc = "done" => exitCode = 1

(* C1 (amended): for a registry with at least one entry, a --modules list   *)
(* with an unknown name ends the run with exit code 1 and an error line,   *)
(* and for every registry no command at all is executed at any point of    *)
(* such a run, the valid names of the list included.                       *)
C1_UnknownNameFailsBeforeAnyCommand ==
    (manifestExists /\ HasUnknownName)
        => /\ log = <<>>
           /\ pc \in {"start", "done"}
           /\ (pc = "done" /\ RegistryNames # {})
                => exitCode = 1 /\ Len(out) = 1 /\ LastLine.kind = "error"
           /\ (pc = "done" /\ RegistryNames = {}) => exitCode = 0

C1_Witness ==
    /\ pc = "done" /\ exitCode = 1 /\ manifestExists
    /\ HasUnknownName
    /\ \E i \in DOMAIN args.modules : args.modules[i] \in RegistryNames
    /\ \E n \in RegistryNames : IsDirty(PathOf(n))

(* C2: a manifest that yields no entry (no section, or only sections        *)
(* without a path) makes every subcommand print the "no submodules" line   *)
(* and return 0, with no target resolution (an unknown --modules name is   *)
(* not reported), no status scan and no per-target operation.              *)
C2_EmptyRegistryExitsZero ==
    (manifestExists /\ RegistryNames = {})
        => /\ pc \in {"start", "done"}
           /\ log = <<>> /\ targets = <<>> /\ modules = <<>>
           /\ pc = "done" => /\ exitCode = 0
                             /\ Len(out) = 1 /\ LastLine.kind = "no submodules"

C2_Witness ==
    /\ pc = "done" /\ exitCode = 0 /\ manifestExists
    /\ manifest # <<>> /\ RegistryNames = {}
    /\ HasUnknownName
    /\ LastLine.kind = "no submodules"

(* C3 (as stated): branch, push, mr and update-parent apply their           *)
(* per-target operation to every explicitly named module, dirty or clean,  *)
(* when --modules is given, and to exactly the dirty modules of the        *)
(* registry otherwise. The code scans the named modules and drops the      *)
(* clean ones.                                                             *)
C3_Original ==
    (pc = "done" /\ exitCode = 0 /\ args.command \in PerTarget /\ targets # <<>>)
        => {CmdPath(OpLog[i]) : i \in DOMAIN OpLog}
             = IF args.modules # <<>>
               THEN {PathOf(args.modules[i]) : i \in DOMAIN args.modules}
               ELSE {PathOf(n) : n \in {m \in RegistryNames : IsDirty(PathOf(m))}}

(* C4 (as stated): the dirty set the scan returns holds exactly the targets *)
(* with a non-blank status line, in the order of their declaration in the  *)
(* manifest, whatever the order of an explicit --modules list.             *)
C4_Original ==
    (Scanned /\ ~(args.command = "status" /\ args.include_clean))
        => /\ \A i \in DOMAIN targets :
                IsDirty(targets[i].path) <=> \E j \in DOMAIN modules : modules[j] = targets[i]
           /\ \A i, j \in DOMAIN modules :
                i < j => ManifestPos(modules[i].name) <= ManifestPos(modules[j].name)

(* C4 (amended): the dirty set is the target list with the entries whose    *)
(* status query prints nothing or fails removed: the remaining entries     *)
(* keep the order and the repetitions of the target list, which is the     *)
(* manifest's order without --modules and the list's own order with it.    *)
C4_DirtySetIsFilteredTargets ==
    (Scanned /\ ~(args.command = "status" /\ args.include_clean))
        => /\ modules = SelectSeq(targets, LAMBDA t : IsDirty(t.path))
           /\ \A i \in DOMAIN modules : repos[modules[i].path].kind \notin {"clean", "norepo"}
           /\ args.modules = <<>>
                => \A i, j \in DOMAIN modules :
                      i < j => ManifestPos(modules[i].name) < ManifestPos(modules[j].name)
           /\ args.modules # <<>>
                => targets = [i \in DOMAIN args.modules |->
                                 Submodule(args.modules[i], PathOf(args.modules[i]))]

C4_Witness ==
    /\ Scanned /\ args.command = "push"
    /\ Len(args.modules) = 2 /\ Len(modules) = 2
    /\ ManifestPos(modules[1].name) > ManifestPos(modules[2].name)
    /\ \E p \in Paths : repos[p].kind = "dirty"

C4_FilterWitness ==
    /\ Scanned /\ modules # <<>> /\ Len(modules) < Len(targets)
    /\ \E i \in DOMAIN targets : repos[targets[i].path].kind = "norepo"

(* C5 (as stated): a push run with a detached target fails with an error    *)
(* naming it, and pushes no other target, neither an earlier nor a later   *)
(* one. The code has pushed the earlier targets by then.                   *)
C5_Original ==
    (pc = "done" /\ args.command = "push"
     /\ \E k \in DOMAIN modules : IsDetached(modules[k].path))
        => /\ exitCode = 1
           /\ Pushes = <<>>

(* C5 (amended): a push run with a detached dirty target fails; no push is  *)
(* attempted for the first detached target or for any target after it,     *)
(* and when the loop reaches it (every earlier push having succeeded,      *)
(* those targets stay pushed) the error names that target.                 *)
C5_DetachedStopsPush ==
    (pc = "done" /\ args.command = "push"
     /\ \E k \in DOMAIN modules : IsDetached(modules[k].path))
        => LET first == CHOOSE k \in DOMAIN modules :
                            /\ IsDetached(modules[k].path)
                            /\ \A j \in 1..(k - 1) : ~IsDetached(modules[j].path)
           IN /\ exitCode = 1
              /\ LastLine.kind = "error"
              /\ idx <= first
              /\ Len(Pushes) <= first - 1
              /\ \A j \in DOMAIN Pushes : Pushes[j].dir = modules[j].path
              /\ idx = first
                   => /\ LastLine.name = modules[first].name
                      /\ Len(Pushes) = first - 1
                      /\ \A j \in DOMAIN Pushes : Pushes[j].rc = 0

C5_Witness ==
    /\ pc = "done" /\ args.command = "push" /\ exitCode = 1
    /\ Len(modules) = 2
    /\ ~IsDetached(modules[1].path) /\ IsDetached(modules[2].path)
    /\ Len(Pushes) = 1 /\ Pushes[1].rc = 0
    /\ LastLine.name = modules[2].name

\* the commands run_git runs with check = True, and the review tools' commands
IsChecked(cmd) ==
    \/ cmd.tool # "git"
    \/ cmd.op \in {"checkout", "checkout -b", "checkout -B", "push", "push -u",
                   "remote get-url", "add"}
Failed(cmd) == cmd.rc # 0
ChangesRepo(cmd) == cmd.op \in {"checkout", "checkout -b", "checkout -B", "fetch", "pull"}

(* C6 (as stated): in ensure_branch a non-zero exit of any of its git       *)
(* commands (checkout of the existing branch, fetch, checkout of the base, *)
(* pull, branch creation) raises a workflow error with the command's       *)
(* diagnostic, and no later command of the call runs. The code runs fetch  *)
(* and pull with check=False.                                              *)
C6_Original ==
    \A k \in DOMAIN calls :
        LET cmds == calls[k].done.cmds
        IN \A i \in DOMAIN cmds :
              (ChangesRepo(cmds[i]) /\ Failed(cmds[i]))
                 => /\ calls[k].done.raised
                    /\ calls[k].done.msg = Diag(cmds[i].op, cmds[i].arg)
                    /\ i = Len(cmds)

(* C6 (amended): in ensure_branch a non-zero exit of a checkout (of the     *)
(* existing branch, of the base, or the -b/-B creation) raises a workflow  *)
(* error with that command's diagnostic and no later command of the call   *)
(* runs; a non-zero exit of the fetch or of the pull of the base is        *)
(* ignored and the call goes on with its next command. The call raises in  *)
(* no other case.                                                          *)
C6_FailedCheckoutAborts ==
    \A k \in DOMAIN calls :
        LET cmds == calls[k].done.cmds
            last == cmds[Len(cmds)]
        IN /\ \A i \in DOMAIN cmds :
                /\ (IsChecked(cmds[i]) /\ Failed(cmds[i]))
                      => /\ calls[k].done.raised
                         /\ calls[k].done.msg = Diag(cmds[i].op, cmds[i].arg)
                         /\ calls[k].done.ret = None
                         /\ i = Len(cmds)
                /\ (cmds[i].op \in {"fetch", "pull"} /\ Failed(cmds[i]))
                      => /\ i < Len(cmds)
                         /\ cmds[i + 1].op \in {"checkout", "checkout -b", "checkout -B"}
           /\ calls[k].done.raised => IsChecked(last) /\ Failed(last)

C6_Witness ==
    \E k \in DOMAIN calls :
        LET cmds == calls[k].done.cmds
        IN /\ calls[k].done.raised
           /\ Len(cmds) >= 2
           /\ cmds[Len(cmds)].op = "checkout -b" /\ Failed(cmds[Len(cmds)])
           /\ cmds[Len(cmds) - 1].op = "pull" /\ Failed(cmds[Len(cmds) - 1])
           /\ \E i \in DOMAIN cmds : cmds[i].op = "fetch" /\ Failed(cmds[i])

(* C7 (as stated): whenever a first ensure_branch call succeeds, a second   *)
(* call with the same name, whatever its base and force, runs no checkout, *)
(* fetch, pull or creation command, returns the name and leaves the        *)
(* repository as it was. A name that resolves to a tag is "checked out"    *)
(* by the first call into a detached HEAD, and again by the second.        *)
C7_Original ==
    (Len(calls) = 2 /\ ~calls[1].done.raised /\ calls[2].branch = calls[1].branch)
        => /\ ~calls[2].done.raised
           /\ calls[2].done.ret = calls[2].branch
           /\ \A i \in DOMAIN calls[2].done.cmds : ~ChangesRepo(calls[2].done.cmds[i])
           /\ calls[2].done.repo = calls[2].pre

(* C9 (as stated): with force, a branch that exists and is not the current  *)
(* one is recreated at the current HEAD (checkout -B). The code finds the  *)
(* name with rev-parse --verify and checks the branch out as it is.        *)
C9_Original ==
    \A k \in DOMAIN calls :
        LET call == calls[k]
        IN (/\ call.force
            /\ call.branch \in DOMAIN call.pre.branches
            /\ call.pre.head # call.branch
            /\ ~call.done.raised)
              => /\ \E i \in DOMAIN call.done.cmds : call.done.cmds[i].op = "checkout -B"
                 /\ call.done.repo.head = call.branch
                 /\ call.done.repo.branches[call.branch] = call.pre.commit

(* C8: the tool create_merge_request chooses once it has the origin URL:    *)
(* the tool of the host the URL names when that tool is installed, the     *)
(* installed one when the host's tool is missing, and none when neither is *)
(* installed: then no review command runs, the manual suggestion is        *)
(* printed and the call does not raise, so that an mr run whose targets    *)
(* all have a branch and an origin returns 0.                              *)
C8_ToolSelection ==
    /\ \A k \in DOMAIN requests :
         LET req == requests[k]
             url == req.origin.url
         IN req.origin.present
              => /\ (url.gitlab /\ tools.glab) => req.tool = "glab"
                 /\ (url.github /\ ~url.gitlab /\ tools.gh) => req.tool = "gh"
                 /\ (tools.glab /\ ~tools.gh) => req.tool = "glab"
                 /\ (tools.gh /\ ~tools.glab) => req.tool = "gh"
                 /\ (~tools.glab /\ ~tools.gh) => req.tool = None /\ ~req.raised
                 /\ (tools.glab \/ tools.gh) => req.tool # None /\ tools[req.tool]
    /\ (args.command = "mr" /\ ~tools.glab /\ ~tools.gh)
         => /\ \A i \in DOMAIN log : log[i].tool = "git"
            /\ (pc = "done" /\ exitCode = 1 /\ modules # <<>>)
                 => \/ IsDetached(modules[idx].path) /\ Len(requests) = idx - 1
                    \/ Len(requests) = idx /\ ~requests[idx].origin.present
            /\ (pc = "done" /\ exitCode = 0 /\ modules # <<>>)
                 => /\ Len(requests) = Len(modules)
                    /\ Len(SelectSeq(out, LAMBDA l : l.kind = "manual")) = Len(modules)

C8_Witness ==
    /\ pc = "done" /\ exitCode = 0 /\ args.command = "mr"
    /\ ~tools.glab /\ tools.gh
    /\ \E k \in DOMAIN requests :
         /\ requests[k].origin.present /\ requests[k].origin.url.gitlab
         /\ requests[k].tool = "gh" /\ ~requests[k].raised
    /\ \E i \in DOMAIN log : log[i].tool = "gh" /\ log[i].rc = 0

C8_NoToolWitness ==
    /\ pc = "done" /\ exitCode = 0 /\ args.command = "mr"
    /\ ~tools.glab /\ ~tools.gh
    /\ Len(requests) = 2
    /\ \E l \in Range(out) : l.kind = "manual"

(* C10: a branch, push, mr or update-parent run handles its targets in      *)
(* order and stops at the first workflow error: the failed command is the  *)
(* last command of the run (no command for a later target, no retry), the  *)
(* targets handled before keep what was done to them, and main returns 1;  *)
(* main returns 0 only when no workflow error was raised.                  *)
C10_FailFast ==
    /\ pc = "done" => /\ exitCode \in {0, 1}
                      /\ exitCode = 1 <=> \E l \in Range(out) : l.kind = "error"
    /\ (pc = "done" /\ args.command \in PerTarget /\ modules # <<>>)
         => LET IsStart(cmd) == cmd.op = (IF args.command = "update-parent" THEN "add"
                                          ELSE "rev-parse --abbrev-ref HEAD")
                starts == SelectSeq(OpLog, IsStart)
            IN /\ Len(starts) = idx
               /\ \A k \in 1..idx : CmdPath(starts[k]) = modules[k].path
               /\ \A i \in DOMAIN log : (IsChecked(log[i]) /\ Failed(log[i])) => i = Len(log)
               /\ exitCode = 0
                    => /\ idx = Len(modules)
                       /\ \A i \in DOMAIN log : ~(IsChecked(log[i]) /\ Failed(log[i]))
               /\ exitCode = 1
                    => /\ LastLine.kind = "error"
                       /\ Len(SelectSeq(out, LAMBDA l : l.kind = "error")) = 1
                       /\ args.command = "branch"
                            => \A j \in 1..(idx - 1) :
                                  repos[modules[j].path].head = args.name
                       /\ args.command = "push"
                            => /\ Len(SelectSeq(Pushes, LAMBDA c : c.rc = 0)) = idx - 1
                               /\ \A j \in 1..(idx - 1) : Pushes[j].dir = modules[j].path

C10_Witness ==
    /\ pc = "done" /\ exitCode = 1 /\ args.command = "branch"
    /\ Len(modules) = 2 /\ idx = 2
    /\ modules[1].path # modules[2].path
    /\ repos[modules[1].path].head = "feature"
    /\ \E i \in DOMAIN OpLog : OpLog[i].op = "checkout -b" /\ OpLog[i].rc = 0
    /\ Failed(log[Len(log)])

C10_PendingWitness ==
    /\ pc = "done" /\ exitCode = 1 /\ args.command = "update-parent"
    /\ Len(modules) = 2 /\ idx = 1
    /\ Len(OpLog) = 1

=============================================================================
